---- MODULE Spec2Model ----
(***************************************************************************)
(* Model of the CSV profiler (src/csv_profiler.py) and of the upload       *)
(* handler that drives it (src/app.py).                                    *)
(*                                                                         *)
(* Six specifications share the module:                                    *)
(*   SpecParse   - CSVProfiler.read_csv, one loop iteration per step       *)
(*   SpecInsight - the insight functions applied to a parsed table         *)
(*   SpecOutlier - the outlier block of _generate_ai_insights              *)
(*   SpecFindings - _generate_ai_insights as a whole                       *)
(*   SpecRun     - generate_report runs and the chart files they create    *)
(*   SpecInstance - one instance across calls of analyze, generate_report  *)
(*                                                                         *)
(* Conventions.  pandas and the other libraries are the environment: what  *)
(* pd.read_csv returns for one (encoding, delimiter) pair is an input.     *)
(* A table is a non-empty sequence of columns; the empty sequence stands   *)
(* for None (self.df unset) and for a pd.read_csv call that raised.  A     *)
(* cell is <<>> when missing (NaN) and <<v>> when it holds the value v.    *)
(* Statistics are computed exactly, on integers scaled to clear the        *)
(* denominators.                                                           *)
(***************************************************************************)
EXTENDS Integers, Sequences, FiniteSets, TLC

VARIABLES
    \* ---- read_csv (SpecParse)
    csv,            \* what pd.read_csv yields for each (encoding, delimiter)
    enc_i,          \* index of the outer loop over encodings
    delim_j,        \* index of the inner loop over delimiters
    read_pc,        \* "idle" | "loop" | "returned"
    read_result,    \* the value read_csv returned
    df,             \* self.df
    \* ---- insight functions (SpecInsight, SpecOutlier)
    call,           \* the function that has been applied to df, or "none"
    primary_keys,   \* result of _identify_primary_keys
    trends,         \* result of _analyze_trends
    correlations,   \* result of _analyze_correlations
    insights,       \* result of _generate_ai_insights (self.insights)
    outlier_info,   \* the finding of the outlier block of _generate_ai_insights
    fs,             \* the files on disk
    \* ---- profiling runs (SpecRun)
    upload,         \* per run: the uploaded file and its cleaned base name
    profiler        \* per run: the CSVProfiler instance and where generate_report is

parse_vars == <<csv, enc_i, delim_j, read_pc, read_result>>
insight_vars == <<call, primary_keys, trends, correlations, insights, outlier_info, fs>>

run_vars == <<upload, profiler>>
\* the variables of the single-instance specifications, but for the files
single_vars == <<parse_vars, df, call, primary_keys, trends, correlations, insights,
                 outlier_info>>

vars == <<parse_vars, df, insight_vars, run_vars>>

None == <<>>

----------------------------------------------------------------------------
(* Tables *)

Cell(v) == <<v>>
Missing == <<>>

Column(n, num, cs) == [name |-> n, numeric |-> num, cells |-> cs]

Rows(t) == Len(t[1].cells)

\* the state of the insight variables while no insight function has run
InsightIdle ==
    /\ call = "none"
    /\ primary_keys = <<>>
    /\ trends = <<>>
    /\ correlations = None
    /\ insights = None
    /\ outlier_info = <<>>
    /\ fs = {}

\* the state of the run variables while no run is modelled
RunIdle ==
    /\ upload = <<>>
    /\ profiler = <<>>

\* the state of the parser variables once read_csv has returned True
ParseIdle ==
    /\ csv = <<>>
    /\ enc_i = 1
    /\ delim_j = 1
    /\ read_pc = "returned"
    /\ read_result = TRUE

----------------------------------------------------------------------------
(* CSVProfiler.read_csv *)

encodings == <<"utf-8", "utf-16", "latin1">>
delimiters == <<",", ";", "tab">>

Pairs == {<<encodings[i], delimiters[j]>> :
            i \in 1..Len(encodings), j \in 1..Len(delimiters)}

\* pd.read_csv raised
ParseError == <<>>

\* Tables pd.read_csv can hand back: the whole line as one column, or the
\* line split in two or three fields.
OneColumn == <<Column("a;b;c", FALSE, <<Cell(1)>>)>>
TwoColumns == <<Column("a", TRUE, <<Cell(1)>>), Column("b;c", FALSE, <<Cell(2)>>)>>
ThreeColumns == <<Column("a", TRUE, <<Cell(1)>>), Column("b", TRUE, <<Cell(2)>>),
                  Column("c", TRUE, <<Cell(3)>>)>>

ParseOutcomes == {ParseError, OneColumn, TwoColumns, ThreeColumns}

pd_read_csv(file, encoding, sep) == file[<<encoding, sep>>]

\* the condition of line 31
AcceptedAny(t) == Len(t) >= 1
Accepted(t) == Len(t) > 1

\* One iteration of the inner loop (lines 28-35), with the loop bookkeeping
\* of lines 26-27 and the return of line 36 when the loops are exhausted:
\* the loop indices, self.df and the value returned, if any, after it.
read_step(file, i, j, d) ==
    LET r == pd_read_csv(file, encodings[i], delimiters[j])
        raised == r = ParseError
        last == i = Len(encodings) /\ j = Len(delimiters)
        held == IF raised THEN d ELSE r
    IN  IF ~raised /\ Accepted(r)
        THEN [returned |-> TRUE, result |-> TRUE, i |-> i, j |-> j, df |-> held]
        ELSE IF last
        THEN [returned |-> TRUE, result |-> FALSE, i |-> i, j |-> j, df |-> held]
        ELSE [returned |-> FALSE, result |-> FALSE,
              i |-> IF j = Len(delimiters) THEN i + 1 ELSE i,
              j |-> IF j = Len(delimiters) THEN 1 ELSE j + 1,
              df |-> held]

\* the whole call, from the loop indices i, j with self.df = d
RECURSIVE read_csv_from(_, _, _, _)
read_csv_from(file, i, j, d) ==
    LET s == read_step(file, i, j, d)
    IN  IF s.returned THEN [result |-> s.result, df |-> s.df]
        ELSE read_csv_from(file, s.i, s.j, s.df)

read_csv(file) == read_csv_from(file, 1, 1, None)

TryPair ==
    /\ read_pc = "loop"
    /\ LET s == read_step(csv, enc_i, delim_j, df)
       IN  /\ df' = s.df
           /\ enc_i' = s.i
           /\ delim_j' = s.j
           /\ read_pc' = IF s.returned THEN "returned" ELSE "loop"
           /\ read_result' = s.result
    /\ UNCHANGED <<csv, insight_vars, run_vars>>

\* CSVProfiler.__init__ followed by the entry into read_csv
InitParse ==
    /\ csv \in [Pairs -> ParseOutcomes]
    /\ enc_i = 1
    /\ delim_j = 1
    /\ read_pc = "loop"
    /\ read_result = FALSE
    /\ df = None
    /\ InsightIdle
    /\ RunIdle

NextParse == TryPair

SpecParse == InitParse /\ [][NextParse]_vars

----------------------------------------------------------------------------
(* pandas: Series, correlation, skewness, quantiles *)

RECURSIVE Sum(_)
Sum(s) == IF s = <<>> THEN 0 ELSE Head(s) + Sum(Tail(s))

notna(c) == c # Missing

\* A column as a Series: its cells under the index labels 0..N-1
Series(cells) == [i \in 1..Len(cells) |-> [label |-> i - 1, cell |-> cells[i]]]

\* pd.Series(range(n))
RangeSeries(n) == [i \in 1..n |-> [label |-> i - 1, cell |-> Cell(i - 1)]]

\* Series.dropna keeps the labels of the rows it keeps
dropna(s) == SelectSeq(s, LAMBDA e : notna(e.cell))

\* Series.nunique (dropna=True): distinct non-missing values
nuniqueWithNaN(cells) == Cardinality({cells[i] : i \in 1..Len(cells)})
nunique(cells) ==
    Cardinality({cells[i] : i \in {k \in 1..Len(cells) : notna(cells[k])}})

\* Pearson correlation of a sequence of <<x, y>> observations.  With
\* dx = n*x - sum(x) and dy likewise, r = cov / sqrt(vv) where cov = sum(dx*dy)
\* and vv = sum(dx^2) * sum(dy^2); r is NaN when either variance is zero
\* (which covers fewer than two observations).
Pearson(obs) ==
    LET n == Len(obs)
        sx == Sum([i \in 1..n |-> obs[i][1]])
        sy == Sum([i \in 1..n |-> obs[i][2]])
        dx(i) == n * obs[i][1] - sx
        dy(i) == n * obs[i][2] - sy
        vx == Sum([i \in 1..n |-> dx(i) * dx(i)])
        vy == Sum([i \in 1..n |-> dy(i) * dy(i)])
    IN  [nan |-> vx = 0 \/ vy = 0,
         cov |-> Sum([i \in 1..n |-> dx(i) * dy(i)]),
         vv  |-> vx * vy]

\* comparisons of a correlation r with the thresholds; any comparison with
\* NaN is False
GreaterThanHalf(r) == ~r.nan /\ r.cov > 0 /\ 4 * r.cov * r.cov > r.vv
LessThanMinusHalf(r) == ~r.nan /\ r.cov < 0 /\ 4 * r.cov * r.cov > r.vv
AbsGreaterThanHalf(r) == ~r.nan /\ 4 * r.cov * r.cov > r.vv
AbsAtLeastHalf(r) == ~r.nan /\ 4 * r.cov * r.cov >= r.vv
Positive(r) == ~r.nan /\ r.cov > 0

\* DataFrame.corr for one pair of columns: the rows where both are present
PairwiseComplete(c1, c2) ==
    LET rows == SelectSeq([k \in 1..Len(c1) |-> k],
                          LAMBDA k : notna(c1[k]) /\ notna(c2[k]))
    IN  [m \in 1..Len(rows) |-> <<c1[rows[m]][1], c2[rows[m]][1]>>]

\* Series.corr(other): the two series are aligned on their index labels
\* (inner join) and the rows where both are present are correlated
SeriesCorr(s, other) ==
    LET both == SelectSeq(s, LAMBDA e :
                    /\ notna(e.cell)
                    /\ \E k \in 1..Len(other) :
                          other[k].label = e.label /\ notna(other[k].cell))
        at(l) == CHOOSE k \in 1..Len(other) : other[k].label = l
    IN  Pearson([m \in 1..Len(both) |->
                    <<both[m].cell[1], other[at(both[m].label)].cell[1]>>])

\* Series.skew: the adjusted Fisher-Pearson coefficient
\*   G1 = n*sqrt(n-1)/(n-2) * sum(d^3) / sum(d^2)^1.5,  d = x - mean,
\* NaN for fewer than 3 values and 0 when sum(d^2) = 0.  With D = n*x - sum(x),
\* M2 = sum(D^2) and M3 = sum(D^3):  G1^2 = n^2*(n-1)*M3^2 / ((n-2)^2*M2^3).
\* The result keeps the sign of G1 and how |G1| compares with 1/2.
skew(vals) ==
    LET n == Len(vals)
        s == Sum(vals)
        D(i) == n * vals[i] - s
        M2 == Sum([i \in 1..n |-> D(i) * D(i)])
        M3 == Sum([i \in 1..n |-> D(i) * D(i) * D(i)])
        lhs == 4 * n * n * (n - 1) * M3 * M3
        rhs == (n - 2) * (n - 2) * M2 * M2 * M2
    IN  IF n < 3 THEN [nan |-> TRUE, sign |-> 0, half |-> "below"]
        ELSE IF M2 = 0 THEN [nan |-> FALSE, sign |-> 0, half |-> "below"]
        ELSE [nan |-> FALSE,
              sign |-> IF M3 > 0 THEN 1 ELSE IF M3 < 0 THEN -1 ELSE 0,
              half |-> IF lhs < rhs THEN "below"
                       ELSE IF lhs = rhs THEN "at" ELSE "above"]

\* Series.quantile(k/4), linear interpolation over the sorted non-missing
\* values, as four times the quantile; NaN when there is no value
quantile4(cells, k) ==
    LET present == dropna(Series(cells))
        n == Len(present)
        sorted == SortSeq([i \in 1..n |-> present[i].cell[1]], LAMBDA a, b : a < b)
        h == k * (n - 1)
        lo == h \div 4
        frac == h % 4
    IN  IF n = 0 THEN [nan |-> TRUE, q4 |-> 0]
        ELSE [nan |-> FALSE,
              q4 |-> IF frac = 0 THEN 4 * sorted[lo + 1]
                     ELSE 4 * sorted[lo + 1] + frac * (sorted[lo + 2] - sorted[lo + 1])]

\* df.select_dtypes(include=[np.number]).columns
numeric_cols(t) == SelectSeq(t, LAMBDA c : c.numeric)

----------------------------------------------------------------------------
(* The file system: a set of files, each with its path <<directory, name>>  *)
(* and the run that wrote it last                                          *)

cwd == <<".">>

exists(files, path) == \E f \in files : f.path = path

\* plt.savefig, pdf.output: create the file or overwrite it
write(files, path, run) ==
    {f \in files : f.path # path} \cup {[path |-> path, by |-> run]}

\* os.remove
remove(files, path) == {f \in files : f.path # path}

\* os.rename: the file keeps its writer and replaces whatever was at dst
rename(files, src, dst) ==
    {f \in files : f.path # src /\ f.path # dst}
        \cup {[path |-> dst, by |-> f.by] : f \in {g \in files : g.path = src}}

----------------------------------------------------------------------------
(* CSVProfiler._identify_primary_keys *)

\* a uniqueness test that counts NaN as one more value (Series.is_unique)
IsUnique(c, rows) == nuniqueWithNaN(c.cells) = rows

\* the condition of line 75
IsPrimaryKey(c, rows) ==
    /\ nunique(c.cells) = rows
    /\ \A i \in 1..Len(c.cells) : notna(c.cells[i])

_identify_primary_keys(t) ==
    LET keys == SelectSeq(t, LAMBDA c : IsPrimaryKey(c, Rows(t)))
    IN  [i \in 1..Len(keys) |-> keys[i].name]

----------------------------------------------------------------------------
(* CSVProfiler._analyze_correlations *)

heatmap_path == <<cwd, <<"correlation_heatmap.png">>>>

\* the condition of line 49
IsStrongInclusive(r) == AbsAtLeastHalf(r)
IsStrong(r) == AbsGreaterThanHalf(r)

\* the index pairs of the loops of lines 46-47, in the order they are visited
IndexPairs(n) ==
    SelectSeq([k \in 1..n * n |-> <<((k - 1) \div n) + 1, ((k - 1) % n) + 1>>],
              LAMBDA p : p[2] > p[1])

corr_matrix(cols, i, j) == Pearson(PairwiseComplete(cols[i].cells, cols[j].cells))

strong_correlations(cols) ==
    LET strong == SelectSeq(IndexPairs(Len(cols)),
                            LAMBDA p : IsStrong(corr_matrix(cols, p[1], p[2])))
    IN  [m \in 1..Len(strong) |->
            [col1 |-> cols[strong[m][1]].name,
             col2 |-> cols[strong[m][2]].name,
             correlation |-> corr_matrix(cols, strong[m][1], strong[m][2])]]

\* the value returned (None below two numeric columns)
_analyze_correlations(t) ==
    IF Len(numeric_cols(t)) > 1
    THEN <<[strong_correlations |-> strong_correlations(numeric_cols(t)),
            heatmap_path |-> heatmap_path]>>
    ELSE None

\* the files after the call: the heatmap is saved at line 62
_analyze_correlations_files(t, files, run) ==
    IF Len(numeric_cols(t)) > 1 THEN write(files, heatmap_path, run) ELSE files

----------------------------------------------------------------------------
(* CSVProfiler._analyze_trends *)

\* lines 88-90
trend_of(series) ==
    LET r == SeriesCorr(series, RangeSeries(Len(series)))
    IN  IF GreaterThanHalf(r) THEN "increasing"
        ELSE IF LessThanMinusHalf(r) THEN "decreasing"
        ELSE "stable"

\* lines 94-96
distribution_of(s) ==
    IF ~s.nan /\ s.half = "below" THEN "normal"
    ELSE IF ~s.nan /\ s.sign = 1 /\ s.half = "above" THEN "right-skewed"
    ELSE "left-skewed"

_analyze_trends(t) ==
    LET cols == SelectSeq(numeric_cols(t),
                          LAMBDA c : Len(dropna(Series(c.cells))) > 1)
        series(i) == dropna(Series(cols[i].cells))
        skewness(i) == skew([k \in 1..Len(series(i)) |-> series(i)[k].cell[1]])
    IN  [i \in 1..Len(cols) |->
            [col |-> cols[i].name,
             trend |-> trend_of(series(i)),
             distribution |-> distribution_of(skewness(i)),
             skewness |-> skewness(i)]]

----------------------------------------------------------------------------
(* CSVProfiler._generate_ai_insights *)

\* A key finding: the template that produced the string and what it was
\* filled with (column names, numbers, words)
Finding(kind, cols, nums, words) ==
    [kind |-> kind, cols |-> cols, nums |-> nums, words |-> words]

Abs(x) == IF x < 0 THEN -x ELSE x

\* line 171 for one value v: q1 and q3 are four times the quartiles, so that
\* 8*(q1 - 1.5*iqr) = 2*q1 - 3*(q3 - q1) and 8*(q3 + 1.5*iqr) = 2*q3 + 3*(q3 - q1)
IsOutlierInclusive(v, q1, q3) ==
    \/ 8 * v <= 2 * q1 - 3 * (q3 - q1)
    \/ 8 * v >= 2 * q3 + 3 * (q3 - q1)

IsOutlier(v, q1, q3) ==
    \/ 8 * v < 2 * q1 - 3 * (q3 - q1)
    \/ 8 * v > 2 * q3 + 3 * (q3 - q1)

\* lines 168-171: comparisons with NaN are False and do not count
outliers(cells) ==
    LET q1 == quantile4(cells, 1)
        q3 == quantile4(cells, 3)
    IN  IF q1.nan THEN 0
        ELSE Cardinality({i \in 1..Len(cells) :
                            /\ notna(cells[i])
                            /\ IsOutlier(cells[i][1], q1.q4, q3.q4)})

\* lines 163-180: the outlier finding, or nothing
outlier_findings(t) ==
    LET cols == SelectSeq(numeric_cols(t), LAMBDA c : outliers(c.cells) > 0)
    IN  IF Len(numeric_cols(t)) > 0 /\ cols # <<>>
        THEN <<Finding("outliers",
                       [i \in 1..Len(cols) |-> cols[i].name],
                       [i \in 1..Len(cols) |-> outliers(cols[i].cells)],
                       <<>>)>>
        ELSE <<>>

\* lines 115-124
quality_findings(t) ==
    LET missing(c) == Cardinality({i \in 1..Len(c.cells) : ~notna(c.cells[i])})
        missing_columns == SelectSeq(t, LAMBDA c : missing(c) > 0)
    IN  <<Finding("data_quality",
                  [i \in 1..Len(missing_columns) |-> missing_columns[i].name],
                  <<Sum([i \in 1..Len(t) |-> missing(t[i])]), Rows(t) * Len(t)>>,
                  <<>>),
          Finding("dimensions", <<>>, <<Rows(t), Len(t)>>, <<>>)>>

\* lines 127-131
primary_key_findings(t, keys) ==
    IF keys # <<>>
    THEN <<Finding("primary_keys", keys,
                   [i \in 1..Len(keys) |->
                       nunique((CHOOSE c \in {t[k] : k \in 1..Len(t)} :
                                   c.name = keys[i]).cells)],
                   <<>>)>>
    ELSE <<>>

\* lines 134-141
correlation_findings(corrs) ==
    IF corrs # None /\ corrs[1].strong_correlations # <<>>
    THEN [i \in 1..Len(corrs[1].strong_correlations) |->
            LET c == corrs[1].strong_correlations[i]
            IN  Finding("correlation", <<c.col1, c.col2>>, <<>>,
                        <<IF Positive(c.correlation) THEN "positive" ELSE "negative">>)]
    ELSE <<>>

\* lines 144-152
trend_findings(tr) ==
    LET moving == SelectSeq(tr, LAMBDA e : e.trend # "stable")
    IN  [i \in 1..Len(moving) |->
            Finding("trend", <<moving[i].col>>, <<>>,
                    <<moving[i].trend, moving[i].distribution>>)]

\* lines 155-161
data_type_findings(t) ==
    LET numeric == Len(numeric_cols(t))
        categorical == Len(t) - numeric
    IN  <<Finding("data_types", <<>>, <<numeric, categorical>>,
                  <<IF Abs(numeric - categorical) <= 2 THEN "balanced"
                    ELSE IF numeric > categorical THEN "predominantly numeric"
                    ELSE "predominantly categorical">>)>>

\* the findings with the trend lines ahead of the correlation lines
insights_trends_first(t) ==
    LET keys == _identify_primary_keys(t)
        tr == _analyze_trends(t)
        corrs == _analyze_correlations(t)
    IN  [primary_keys |-> keys,
         trends |-> tr,
         correlations |-> corrs,
         key_findings |-> quality_findings(t)
                            \o primary_key_findings(t, keys)
                            \o trend_findings(tr)
                            \o correlation_findings(corrs)
                            \o data_type_findings(t)
                            \o outlier_findings(t)]

_generate_ai_insights(t) ==
    LET keys == _identify_primary_keys(t)
        tr == _analyze_trends(t)
        corrs == _analyze_correlations(t)
    IN  [primary_keys |-> keys,
         trends |-> tr,
         correlations |-> corrs,
         key_findings |-> quality_findings(t)
                            \o primary_key_findings(t, keys)
                            \o correlation_findings(corrs)
                            \o trend_findings(tr)
                            \o data_type_findings(t)
                            \o outlier_findings(t)]

----------------------------------------------------------------------------
(* The tables the insight functions are applied to *)

MaxRows == 3

CellValues == {0, 1, 2}
Cells == {Missing} \cup {Cell(v) : v \in CellValues}
BinaryCells == {Cell(0), Cell(1)}

\* What pandas infers: a table without rows has only object columns, and a
\* column without any value is a float column
WellTyped(c) ==
    /\ Len(c.cells) = 0 => ~c.numeric
    /\ (Len(c.cells) > 0 /\ \A i \in 1..Len(c.cells) : ~notna(c.cells[i])) => c.numeric

\* two columns of any content
NarrowTable(t) ==
    \E n \in 0..MaxRows :
        \E k1 \in BOOLEAN, k2 \in BOOLEAN, c1 \in [1..n -> Cells], c2 \in [1..n -> Cells] :
            t = <<Column("a", k1, c1), Column("b", k2, c2)>>

\* three columns of complete 0/1 data
WideTable(t) ==
    \E n \in 0..MaxRows :
        \E k1 \in BOOLEAN, k2 \in BOOLEAN, k3 \in BOOLEAN,
           c1 \in [1..n -> BinaryCells], c2 \in [1..n -> BinaryCells],
           c3 \in [1..n -> BinaryCells] :
            t = <<Column("a", k1, c1), Column("b", k2, c2), Column("c", k3, c3)>>

\* the column of the outlier scenario, next to a column of labels
OutlierExample ==
    <<Column("value", TRUE, <<Cell(1), Cell(2), Cell(3), Cell(4), Cell(5), Cell(100)>>),
      Column("label", FALSE, <<Cell(0), Cell(1), Cell(0), Cell(1), Cell(0), Cell(1)>>)>>

\* a table on which every kind of finding is produced: "id" is a key that
\* increases, "amount" follows it and ends on an outlier, "flag" has no trend
FindingsExample ==
    <<Column("id", TRUE, <<Cell(0), Cell(1), Cell(2), Cell(3), Cell(4)>>),
      Column("amount", TRUE, <<Cell(0), Cell(0), Cell(0), Cell(0), Cell(2)>>),
      Column("flag", TRUE, <<Cell(0), Cell(1), Cell(0), Cell(1), Cell(0)>>),
      Column("rank", TRUE, <<Cell(0), Cell(0), Cell(1), Cell(1), Cell(2)>>),
      Column("label", FALSE, <<Cell(0), Cell(1), Cell(0), Cell(1), Cell(1)>>)>>

----------------------------------------------------------------------------
(* The insight functions, each applied to self.df *)

IdentifyPrimaryKeys ==
    /\ call = "none"
    /\ call' = "_identify_primary_keys"
    /\ primary_keys' = _identify_primary_keys(df)
    /\ UNCHANGED <<run_vars, parse_vars, df, trends, correlations, insights, outlier_info, fs>>

AnalyzeTrends ==
    /\ call = "none"
    /\ call' = "_analyze_trends"
    /\ trends' = _analyze_trends(df)
    /\ UNCHANGED <<run_vars, parse_vars, df, primary_keys, correlations, insights, outlier_info, fs>>

AnalyzeCorrelations ==
    /\ call = "none"
    /\ call' = "_analyze_correlations"
    /\ correlations' = _analyze_correlations(df)
    /\ fs' = _analyze_correlations_files(df, fs, 1)
    /\ UNCHANGED <<run_vars, parse_vars, df, primary_keys, trends, insights, outlier_info>>

GenerateAiInsights ==
    /\ call = "none"
    /\ call' = "_generate_ai_insights"
    /\ insights' = <<_generate_ai_insights(df)>>
    /\ fs' = _analyze_correlations_files(df, fs, 1)
    /\ UNCHANGED <<run_vars, parse_vars, df, primary_keys, trends, correlations, outlier_info>>

\* the outlier block of _generate_ai_insights (lines 163-180) on its own
OutlierDetection ==
    /\ call = "none"
    /\ call' = "outlier_detection"
    /\ outlier_info' = outlier_findings(df)
    /\ UNCHANGED <<run_vars, parse_vars, df, primary_keys, trends, correlations, insights, fs>>

InitInsight ==
    /\ ParseIdle
    /\ NarrowTable(df) \/ WideTable(df)
    /\ \A i \in 1..Len(df) : WellTyped(df[i])
    /\ InsightIdle
    /\ RunIdle

NextInsight ==
    \/ IdentifyPrimaryKeys
    \/ AnalyzeTrends
    \/ AnalyzeCorrelations

SpecInsight == InitInsight /\ [][NextInsight]_vars

InitOutlier ==
    /\ ParseIdle
    /\ NarrowTable(df) \/ WideTable(df) \/ df = OutlierExample
    /\ \A i \in 1..Len(df) : WellTyped(df[i])
    /\ InsightIdle
    /\ RunIdle

NextOutlier == OutlierDetection

SpecOutlier == InitOutlier /\ [][NextOutlier]_vars

InitFindings ==
    /\ ParseIdle
    /\ NarrowTable(df) \/ WideTable(df) \/ df = FindingsExample
    /\ \A i \in 1..Len(df) : WellTyped(df[i])
    /\ InsightIdle
    /\ RunIdle

NextFindings == GenerateAiInsights

SpecFindings == InitFindings /\ [][NextFindings]_vars

----------------------------------------------------------------------------
(* Profiling runs: upload_file (src/app.py) creates a CSVProfiler for the   *)
(* saved upload and calls generate_report.  The development server handles  *)
(* requests in threads of one process, so runs share the working directory  *)
(* and interleave between any two file operations.                          *)

Runs == {1, 2}

\* chart and report paths
temp_plot_path(column) == <<cwd, <<"temp_", column, "_dist.png">>>>
project_dir(clean_filename) == <<"/tmp/output", clean_filename>>
plot_path(clean_filename, column) ==
    <<project_dir(clean_filename), <<"plot_", column, ".png">>>>
\* tempfile.mkdtemp: a fresh directory for every call
temp_dir(r) == <<"/tmp", "csv_profiler_", r>>
temp_heatmap_path(r) == <<temp_dir(r), <<"correlation_heatmap.png">>>>
\* the report name carries the time to the minute; the runs fall in one minute
output_file(clean_filename) ==
    <<project_dir(clean_filename), <<clean_filename, "_profile_report_", "now", ".pdf">>>>

\* line 239: a bar plot only up to this many categories
MaxCategories == 20

\* lines 214 and 239: the columns that get a plot
HasPlot(c) == c.numeric \/ nunique(c.cells) <= MaxCategories

\* plt.savefig raises when the column name puts the file in a directory that
\* does not exist
CanSave(column) == column # "x/y"

\* CSVProfiler.__init__
\* method is the public method being executed or executed last, calls the
\* number of calls of public methods so far, reports the number of
\* generate_report calls that returned a report path
NewProfiler ==
    [pc |-> "idle", df |-> None, stats |-> <<>>, insights |-> None,
     column_stats |-> <<>>, i |-> 1, error |-> "", report |-> None,
     method |-> "", calls |-> 0, reports |-> 0]

\* the calls of public methods made on one instance
MaxCalls == 2

\* the tables uploaded
Numbers == <<Column("a", TRUE, <<Cell(0), Cell(1), Cell(2)>>),
             Column("b", TRUE, <<Cell(0), Cell(2), Cell(1)>>)>>
Mixed == <<Column("a", TRUE, <<Cell(2), Cell(1), Cell(0)>>),
           Column("kind", FALSE, <<Cell(0), Cell(1), Cell(0)>>)>>
Codes == <<Column("code", FALSE, [k \in 1..MaxCategories + 1 |-> Cell(k)]),
           Column("kind", FALSE, [k \in 1..MaxCategories + 1 |-> Cell(0)])>>
Slash == <<Column("a", TRUE, <<Cell(0), Cell(1), Cell(2)>>),
           Column("x/y", TRUE, <<Cell(1), Cell(1), Cell(0)>>)>>

\* a comma-separated UTF-8 file holding the table t
FileOf(t) == [p \in Pairs |-> IF p[1] = "utf-16" THEN ParseError
                              ELSE IF p[2] = "," THEN t ELSE OneColumn]
\* a file with a single column
SingleColumnFile == [p \in Pairs |-> IF p[1] = "utf-16" THEN ParseError ELSE OneColumn]

Files == {FileOf(Numbers), FileOf(Mixed), FileOf(Codes), FileOf(Slash), SingleColumnFile}
BaseNames == {"sales", "stock"}

Update(r, p) == profiler' = [profiler EXCEPT ![r] = p]

\* an exception inside the try block of generate_report: on to the finally
Raise(p, message) == [p EXCEPT !.pc = "finally", !.error = message]

\* generate_report line 263: analysis is skipped when self.stats is set
EnterGenerateReport(p) ==
    [p EXCEPT !.pc = IF p.stats = <<>> THEN "read_csv" ELSE "makedirs",
              !.method = "generate_report", !.calls = p.calls + 1,
              !.error = "", !.report = None]

\* upload_file lines 37-53 and generate_report line 263
Start(r) ==
    /\ profiler[r].pc = "idle"
    /\ Update(r, EnterGenerateReport(profiler[r]))
    /\ UNCHANGED <<upload, fs, single_vars>>

\* no public method of the instance is executing
BetweenCalls(p) == p.pc \in {"idle", "returned", "raised"}

\* a further generate_report call on an instance that was used before
GenerateReportAgain(r) ==
    /\ profiler[r].pc \in {"returned", "raised"}
    /\ profiler[r].calls < MaxCalls
    /\ Update(r, EnterGenerateReport(profiler[r]))
    /\ UNCHANGED <<upload, fs, single_vars>>

\* a call of analyze itself, line 184
Analyze(r) ==
    /\ BetweenCalls(profiler[r])
    /\ profiler[r].calls < MaxCalls
    /\ Update(r, [profiler[r] EXCEPT !.pc = "read_csv", !.method = "analyze",
                                     !.calls = profiler[r].calls + 1,
                                     !.error = "", !.report = None])
    /\ UNCHANGED <<upload, fs, single_vars>>

\* analyze returned False: generate_report raises at line 265, a caller of
\* analyze just gets the value
AnalysisFailed(p) ==
    IF p.method = "analyze" THEN [p EXCEPT !.pc = "returned"]
    ELSE [p EXCEPT !.pc = "raised", !.error = "Analysis failed"]

\* analyze lines 186-189; generate_report line 265 when it returns False
ReadCsv(r) ==
    /\ profiler[r].pc = "read_csv"
    /\ LET res == read_csv(upload[r].file)
       IN  Update(r, IF res.result
                     THEN [profiler[r] EXCEPT !.pc = "insights", !.df = res.df]
                     ELSE AnalysisFailed([profiler[r] EXCEPT !.df = res.df]))
    /\ UNCHANGED <<upload, fs, single_vars>>

\* analyze lines 191-205
Insights(r) ==
    /\ profiler[r].pc = "insights"
    /\ Update(r, [profiler[r] EXCEPT
                    !.pc = "column_stats",
                    !.insights = <<_generate_ai_insights(profiler[r].df)>>,
                    !.column_stats = <<>>,
                    !.i = 1])
    /\ fs' = _analyze_correlations_files(profiler[r].df, fs, r)
    /\ UNCHANGED <<upload, single_vars>>

\* analyze lines 206-259, one column per step; the exception of a failed
\* savefig is caught at line 257 and generate_report raises at line 265
ColumnStats(r) ==
    /\ profiler[r].pc = "column_stats"
    /\ LET p == profiler[r]
           c == p.df[p.i]
           entry == [column |-> c.name, plot |-> HasPlot(c)]
       IN  IF HasPlot(c) /\ ~CanSave(c.name)
           THEN /\ Update(r, AnalysisFailed(p))
                /\ fs' = fs
           ELSE /\ fs' = IF HasPlot(c) THEN write(fs, temp_plot_path(c.name), r) ELSE fs
                /\ Update(r, IF p.i = Len(p.df)
                             THEN [p EXCEPT !.pc = IF p.method = "analyze"
                                                  THEN "returned" ELSE "makedirs",
                                            !.stats = Append(p.column_stats, entry),
                                            !.column_stats = <<>>]
                             ELSE [p EXCEPT !.i = p.i + 1,
                                            !.column_stats = Append(p.column_stats, entry)])
    /\ UNCHANGED <<upload, single_vars>>

\* generate_report lines 268-303
MakeDirs(r) ==
    /\ profiler[r].pc = "makedirs"
    /\ Update(r, [profiler[r] EXCEPT !.pc = "heatmap"])
    /\ UNCHANGED <<upload, fs, single_vars>>

\* generate_report lines 306-334; pdf.image may raise
Heatmap(r) ==
    /\ profiler[r].pc = "heatmap"
    /\ LET p == profiler[r]
       IN  IF p.insights[1].correlations # None
           THEN /\ fs' = write(fs, temp_heatmap_path(r), r)
                /\ \/ Update(r, [p EXCEPT !.pc = "column_page", !.i = 1])
                   \/ Update(r, Raise(p, "FPDF error"))
           ELSE /\ fs' = fs
                /\ Update(r, [p EXCEPT !.pc = "column_page", !.i = 1])
    /\ UNCHANGED <<upload, single_vars>>

\* the end of one iteration of the loop of line 336
NextColumn(p) ==
    IF p.i = Len(p.stats) THEN [p EXCEPT !.pc = "output"]
    ELSE [p EXCEPT !.pc = "column_page", !.i = p.i + 1]

\* generate_report lines 336-387: the page of one column, up to os.rename
ColumnPage(r) ==
    /\ profiler[r].pc = "column_page"
    /\ LET p == profiler[r]
           s == p.stats[p.i]
       IN  IF ~s.plot
           THEN Update(r, NextColumn(p)) /\ fs' = fs
           ELSE IF ~exists(fs, temp_plot_path(s.column))
           THEN Update(r, Raise(p, "FileNotFoundError")) /\ fs' = fs
           ELSE /\ fs' = rename(fs, temp_plot_path(s.column),
                                plot_path(upload[r].clean_filename, s.column))
                /\ Update(r, [p EXCEPT !.pc = "image"])
    /\ UNCHANGED <<upload, single_vars>>

\* generate_report line 388; pdf.image may raise
EmbedPlot(r) ==
    /\ profiler[r].pc = "image"
    /\ LET p == profiler[r]
           s == p.stats[p.i]
       IN  IF ~exists(fs, plot_path(upload[r].clean_filename, s.column))
           THEN Update(r, Raise(p, "FileNotFoundError"))
           ELSE \/ Update(r, [p EXCEPT !.pc = "remove"])
                \/ Update(r, Raise(p, "FPDF error"))
    /\ UNCHANGED <<upload, fs, single_vars>>

\* generate_report line 389
RemovePlot(r) ==
    /\ profiler[r].pc = "remove"
    /\ LET p == profiler[r]
           path == plot_path(upload[r].clean_filename, p.stats[p.i].column)
       IN  IF ~exists(fs, path)
           THEN Update(r, Raise(p, "FileNotFoundError")) /\ fs' = fs
           ELSE Update(r, NextColumn(p)) /\ fs' = remove(fs, path)
    /\ UNCHANGED <<upload, single_vars>>

\* generate_report lines 392-397; pdf.output may raise
Output(r) ==
    /\ profiler[r].pc = "output"
    /\ LET p == profiler[r]
           path == output_file(upload[r].clean_filename)
       IN  \/ /\ fs' = write(fs, path, r)
              /\ Update(r, [p EXCEPT !.pc = "finally", !.report = <<path>>])
           \/ /\ fs' = fs
              /\ Update(r, Raise(p, "FPDF error"))
    /\ UNCHANGED <<upload, single_vars>>

\* generate_report lines 399-402, then the return or the pending exception
Finally(r) ==
    /\ profiler[r].pc = "finally"
    /\ fs' = {f \in fs : f.path[1] # temp_dir(r)}
    /\ Update(r, IF profiler[r].error = ""
                  THEN [profiler[r] EXCEPT !.pc = "returned",
                                           !.reports = profiler[r].reports + 1]
                  ELSE [profiler[r] EXCEPT !.pc = "raised"])
    /\ UNCHANGED <<upload, single_vars>>

InitRun ==
    /\ ParseIdle
    /\ df = None
    /\ InsightIdle
    /\ upload \in [Runs -> [file : Files, clean_filename : BaseNames]]
    /\ upload[1].clean_filename = "sales"
    /\ profiler = [r \in Runs |-> NewProfiler]

NextRun ==
    \E r \in Runs :
        \/ Start(r)
        \/ ReadCsv(r)
        \/ Insights(r)
        \/ ColumnStats(r)
        \/ MakeDirs(r)
        \/ Heatmap(r)
        \/ ColumnPage(r)
        \/ EmbedPlot(r)
        \/ RemovePlot(r)
        \/ Output(r)
        \/ Finally(r)

SpecRun == InitRun /\ [][NextRun]_vars

\* One instance used for several calls of analyze and generate_report, as a
\* caller of the class may do; nothing else touches the files
InitInstance ==
    /\ InitRun
    /\ \A r \in Runs : upload[r] = upload[1]

NextInstance ==
    \/ Start(1)
    \/ GenerateReportAgain(1)
    \/ Analyze(1)
    \/ ReadCsv(1)
    \/ Insights(1)
    \/ ColumnStats(1)
    \/ MakeDirs(1)
    \/ Heatmap(1)
    \/ ColumnPage(1)
    \/ EmbedPlot(1)
    \/ RemovePlot(1)
    \/ Output(1)
    \/ Finally(1)

SpecInstance == InitInstance /\ [][NextInstance]_vars

----------------------------------------------------------------------------
(* Properties of read_csv *)

\* the order of the attempts as the specification lists it
PairOrder ==
    <<<<"utf-8", ",">>, <<"utf-8", ";">>, <<"utf-8", "tab">>,
      <<"utf-16", ",">>, <<"utf-16", ";">>, <<"utf-16", "tab">>,
      <<"latin1", ",">>, <<"latin1", ";">>, <<"latin1", "tab">>>>

\* an attempt whose parse succeeds and yields more than one column
Acceptable(k) == csv[PairOrder[k]] # ParseError /\ Len(csv[PairOrder[k]]) >= 2

\* the position in PairOrder of the attempt the loops are at
Position == CHOOSE k \in 1..Len(PairOrder) :
                PairOrder[k] = <<encodings[enc_i], delimiters[delim_j]>>

\* C3: read_csv tries the pairs in the listed order and returns success with
\* the table of the first pair whose parse succeeds with more than one column;
\* a single-column parse of an earlier pair never becomes the result, so a
\* file that parses as one column with (utf-8, ',') and as three columns with
\* (utf-8, ';') is loaded as three columns.
C3_FirstAcceptablePairWins ==
    /\ read_pc = "loop" => \A k \in 1..Position - 1 : ~Acceptable(k)
    /\ (read_pc = "returned" /\ read_result) =>
          /\ Acceptable(Position)
          /\ \A k \in 1..Position - 1 : ~Acceptable(k)
          /\ df = csv[PairOrder[Position]]
    /\ (read_pc = "returned" /\ ~read_result) =>
          \A k \in 1..Len(PairOrder) : ~Acceptable(k)
    /\ (/\ read_pc = "returned"
        /\ csv[<<"utf-8", ",">>] = OneColumn
        /\ csv[<<"utf-8", ";">>] = ThreeColumns) =>
          read_result /\ df = ThreeColumns

C3_Witness ==
    /\ read_pc = "returned"
    /\ read_result
    /\ csv[<<"utf-8", ",">>] = OneColumn
    /\ csv[<<"utf-8", ";">>] = ThreeColumns
    /\ csv[<<"utf-8", "tab">>] = TwoColumns
    /\ df = ThreeColumns

\* C4: when every pair is exhausted without an accepted result, read_csv
\* returns failure and the profiler holds no parsed table (self.df is unset).
C4_NoTableOnFailure ==
    (read_pc = "returned" /\ ~read_result) => df = None

----------------------------------------------------------------------------
(* Properties of the insight functions *)

ColumnIndex(name) == CHOOSE i \in 1..Len(df) : df[i].name = name

PresentValues(c) == {c.cells[i][1] : i \in {k \in 1..Len(c.cells) : c.cells[k] # Missing}}
MissingCount(c) == Cardinality({i \in 1..Len(c.cells) : c.cells[i] = Missing})

\* C6: a column is reported as a primary key iff its count of distinct
\* non-missing values equals the row count and it has no missing value; all
\* such columns are reported, in table column order.
C6_PrimaryKeysExact ==
    call = "_identify_primary_keys" =>
        /\ \A i \in 1..Len(df) :
              (\E k \in 1..Len(primary_keys) : primary_keys[k] = df[i].name)
                 <=> (/\ Cardinality(PresentValues(df[i])) = Rows(df)
                      /\ MissingCount(df[i]) = 0)
        /\ \A k \in 1..Len(primary_keys) :
              \E i \in 1..Len(df) : df[i].name = primary_keys[k]
        /\ \A k1, k2 \in 1..Len(primary_keys) :
              k1 < k2 => ColumnIndex(primary_keys[k1]) < ColumnIndex(primary_keys[k2])

\* a column unique but for one missing value is left out, next to a reported one
C6_Witness ==
    /\ call = "_identify_primary_keys"
    /\ Rows(df) = 3
    /\ Len(primary_keys) = 1
    /\ \E i \in 1..Len(df) :
          /\ MissingCount(df[i]) = 1
          /\ Cardinality(PresentValues(df[i])) = 2
          /\ \A k \in 1..Len(primary_keys) : primary_keys[k] # df[i].name

NumericIndices == {i \in 1..Len(df) : df[i].numeric}

\* the correlation of two columns of df over the rows where both are present
Correlation(i, j) == Pearson(PairwiseComplete(df[i].cells, df[j].cells))

\* how often the pair of columns i, j is among the reported correlations
TimesReported(i, j) ==
    Cardinality({m \in 1..Len(correlations[1].strong_correlations) :
        LET e == correlations[1].strong_correlations[m]
        IN  {e.col1, e.col2} = {df[i].name, df[j].name}})

\* C7: with at least two numeric columns, each unordered pair of distinct
\* numeric columns is reported exactly once if |correlation| > 0.5 and not at
\* all otherwise (exactly 0.5 and undefined are not reported, no column is
\* paired with itself); with fewer than two numeric columns there is no
\* correlation result and no heatmap.
C7_StrongPairsExact ==
    call = "_analyze_correlations" =>
        IF Cardinality(NumericIndices) >= 2
        THEN /\ correlations # None
             /\ exists(fs, heatmap_path)
             /\ \A i, j \in NumericIndices :
                   i < j => TimesReported(i, j) =
                               IF /\ ~Correlation(i, j).nan
                                  /\ 4 * Correlation(i, j).cov * Correlation(i, j).cov
                                        > Correlation(i, j).vv
                               THEN 1 ELSE 0
             /\ \A m \in 1..Len(correlations[1].strong_correlations) :
                   LET e == correlations[1].strong_correlations[m]
                   IN  /\ e.col1 # e.col2
                       /\ \E i \in NumericIndices : df[i].name = e.col1
                       /\ \E j \in NumericIndices : df[j].name = e.col2
        ELSE /\ correlations = None
             /\ ~exists(fs, heatmap_path)

\* two numeric columns whose correlation is exactly 0.5 in absolute value
C7_Witness ==
    /\ call = "_analyze_correlations"
    /\ NumericIndices = {1, 2}
    /\ ~Correlation(1, 2).nan
    /\ 4 * Correlation(1, 2).cov * Correlation(1, 2).cov = Correlation(1, 2).vv
    /\ correlations # None
    /\ correlations[1].strong_correlations = <<>>

\* comparisons of a skewness with the thresholds 0.5 and -0.5 (False for NaN)
SkewAbsBelowHalf(s) == ~s.nan /\ s.half = "below"
SkewAtLeastHalf(s) == ~s.nan /\ s.sign = 1 /\ s.half \in {"at", "above"}
SkewAtMostMinusHalf(s) == ~s.nan /\ s.sign = -1 /\ s.half \in {"at", "above"}

\* C8: the distribution of a column is normal when |s| < 0.5, right-skewed
\* when s >= 0.5 and left-skewed when s <= -0.5, s being its skewness;
\* left-skewed is assigned only when s <= -0.5.
C8_SkewClassification ==
    call = "_analyze_trends" =>
        \A k \in 1..Len(trends) :
            /\ trends[k].distribution = "normal" <=> SkewAbsBelowHalf(trends[k].skewness)
            /\ trends[k].distribution = "right-skewed" <=> SkewAtLeastHalf(trends[k].skewness)
            /\ trends[k].distribution = "left-skewed" <=> SkewAtMostMinusHalf(trends[k].skewness)

\* the non-missing values of a column in row order, each with its position
\* 0..n-1 in that sequence
ValuesWithPositions(c) ==
    LET rows == SelectSeq([k \in 1..Len(c.cells) |-> k], LAMBDA k : c.cells[k] # Missing)
    IN  [m \in 1..Len(rows) |-> <<c.cells[rows[m]][1], m - 1>>]

TrendByPosition(c) ==
    LET r == Pearson(ValuesWithPositions(c))
    IN  IF ~r.nan /\ r.cov > 0 /\ 4 * r.cov * r.cov > r.vv THEN "increasing"
        ELSE IF ~r.nan /\ r.cov < 0 /\ 4 * r.cov * r.cov > r.vv THEN "decreasing"
        ELSE "stable"

\* C9: a numeric column with more than one non-missing value gets the trend
\* of the correlation of its non-missing values with their positions 0..n-1
\* (increasing above 0.5, decreasing below -0.5, else stable), also when
\* values are missing before or between the present ones; a column with at
\* most one non-missing value gets no entry.
C9_TrendByPosition ==
    call = "_analyze_trends" =>
        \A i \in 1..Len(df) :
            IF df[i].numeric /\ Len(ValuesWithPositions(df[i])) > 1
            THEN \E k \in 1..Len(trends) :
                    /\ trends[k].col = df[i].name
                    /\ trends[k].trend = TrendByPosition(df[i])
            ELSE \A k \in 1..Len(trends) : trends[k].col # df[i].name

\* four times the quartiles of a column
Q1x4(c) == quantile4(c.cells, 1).q4
Q3x4(c) == quantile4(c.cells, 3).q4

\* the values of a column strictly below Q1 - 1.5*IQR or strictly above
\* Q3 + 1.5*IQR: 8*(Q1 - 1.5*IQR) = 5*(4*Q1) - 3*(4*Q3), and likewise above
OutlierRows(c) ==
    {i \in 1..Len(c.cells) :
        /\ c.cells[i] # Missing
        /\ \/ 8 * c.cells[i][1] < 5 * Q1x4(c) - 3 * Q3x4(c)
           \/ 8 * c.cells[i][1] > 5 * Q3x4(c) - 3 * Q1x4(c)}

ColumnsWithOutliers ==
    SelectSeq([i \in 1..Len(df) |-> i],
              LAMBDA i : df[i].numeric /\ OutlierRows(df[i]) # {})

\* C10: the outlier count of a numeric column is the number of its values
\* strictly outside [Q1 - 1.5*IQR, Q3 + 1.5*IQR]; the finding lists exactly the
\* columns whose count is at least 1, with that count, and is emitted iff
\* there is such a column.  For [1,2,3,4,5,100] only 100 is flagged.
C10_OutlierFinding ==
    call = "outlier_detection" =>
        /\ outlier_info = <<>> <=> ColumnsWithOutliers = <<>>
        /\ outlier_info # <<>> =>
              /\ Len(outlier_info) = 1
              /\ outlier_info[1].kind = "outliers"
              /\ outlier_info[1].cols =
                    [k \in 1..Len(ColumnsWithOutliers) |-> df[ColumnsWithOutliers[k]].name]
              /\ outlier_info[1].nums =
                    [k \in 1..Len(ColumnsWithOutliers) |->
                        Cardinality(OutlierRows(df[ColumnsWithOutliers[k]]))]
        /\ df = OutlierExample =>
              /\ OutlierRows(df[1]) = {6}
              /\ outlier_info = <<Finding("outliers", <<"value">>, <<1>>, <<>>)>>

C10_Witness ==
    /\ call = "outlier_detection"
    /\ df = OutlierExample
    /\ outlier_info # <<>>
    /\ outlier_info[1].cols = <<"value">>
    /\ outlier_info[1].nums = <<1>>

\* the key findings of the insights, and those of one kind
key_findings == insights[1].key_findings
OfKind(kind) == SelectSeq(key_findings, LAMBDA f : f.kind = kind)

\* the place of each kind of finding in the fixed order
Rank(kind) ==
    CASE kind = "data_quality" -> 1
      [] kind = "dimensions"   -> 2
      [] kind = "primary_keys" -> 3
      [] kind = "correlation"  -> 4
      [] kind = "trend"        -> 5
      [] kind = "data_types"   -> 6
      [] kind = "outliers"     -> 7
      [] OTHER                 -> 0

\* the strong correlations and the non-stable trends of the insights
CorrelationList ==
    IF insights[1].correlations = None THEN <<>>
    ELSE insights[1].correlations[1].strong_correlations
MovingTrends == SelectSeq(insights[1].trends, LAMBDA e : e.trend # "stable")

HasPrimaryKey ==
    \E i \in 1..Len(df) :
        /\ Cardinality(PresentValues(df[i])) = Rows(df)
        /\ MissingCount(df[i]) = 0

NumericCount == Cardinality(NumericIndices)
CategoricalCount == Len(df) - NumericCount

\* C11: key_findings is, in this order: the data-quality finding and the
\* dimensions finding (always), one primary-key finding iff a primary key was
\* detected, one finding per strong correlation in the order of the
\* correlation list, one finding per column whose trend is not stable, exactly
\* one data-type finding (balanced iff the numeric and categorical column
\* counts differ by at most 2), one outlier finding iff some column has
\* outliers; no finding of a later kind precedes one of an earlier kind.
C11_KeyFindingsOrder ==
    call = "_generate_ai_insights" =>
        /\ Len(key_findings) >= 3
        /\ key_findings[1].kind = "data_quality"
        /\ key_findings[2].kind = "dimensions"
        /\ Len(OfKind("data_quality")) = 1
        /\ Len(OfKind("dimensions")) = 1
        /\ \A i \in 1..Len(key_findings) : Rank(key_findings[i].kind) > 0
        /\ \A i, j \in 1..Len(key_findings) :
              i < j => Rank(key_findings[i].kind) <= Rank(key_findings[j].kind)
        /\ Len(OfKind("primary_keys")) = (IF HasPrimaryKey THEN 1 ELSE 0)
        /\ [i \in 1..Len(OfKind("correlation")) |-> OfKind("correlation")[i].cols]
              = [i \in 1..Len(CorrelationList) |->
                    <<CorrelationList[i].col1, CorrelationList[i].col2>>]
        /\ [i \in 1..Len(OfKind("trend")) |-> OfKind("trend")[i].cols]
              = [i \in 1..Len(MovingTrends) |-> <<MovingTrends[i].col>>]
        /\ Len(OfKind("data_types")) = 1
        /\ OfKind("data_types")[1].words = <<"balanced">>
              <=> Abs(NumericCount - CategoricalCount) <= 2
        /\ Len(OfKind("outliers")) = (IF ColumnsWithOutliers # <<>> THEN 1 ELSE 0)

\* every kind of finding is present, several correlations among them, and a
\* column with a stable trend is passed over
C11_Witness ==
    /\ call = "_generate_ai_insights"
    /\ df = FindingsExample
    /\ \A k \in 1..7 : \E i \in 1..Len(key_findings) : Rank(key_findings[i].kind) = k
    /\ Len(OfKind("correlation")) >= 2
    /\ Len(OfKind("trend")) >= 1
    /\ Len(OfKind("trend")) < Len(insights[1].trends)

\* a table whose column counts differ by more than 2 is not called balanced
C11_WitnessUnbalanced ==
    /\ call = "_generate_ai_insights"
    /\ OfKind("data_types")[1].words = <<"predominantly numeric">>

----------------------------------------------------------------------------
(* Properties of the profiling runs *)

Finished(r) == profiler[r].pc \in {"returned", "raised"}

\* the chart images: per-column temp files, heatmaps, plots moved to the
\* project directory
IsChart(path) == path[2][1] \in {"temp_", "plot_", "correlation_heatmap.png"}

\* C1: on every exit path of generate_report (return, exception while
\* writing the report, analyze failing) every chart image file the run
\* created has been deleted when generate_report returns or raises.
C1_ChartsDeletedOnExit ==
    \A r \in Runs :
        Finished(r) => ~\E f \in fs : IsChart(f.path) /\ f.by = r

\* a run that fails whatever the other run does: its file does not parse, a
\* chart cannot be saved, or the PDF library raised
FailsAlone(r) ==
    \/ ~read_csv(upload[r].file).result
    \/ \E i \in 1..Len(read_csv(upload[r].file).df) :
          LET c == read_csv(upload[r].file).df[i]
          IN  HasPlot(c) /\ ~CanSave(c.name)
    \/ profiler[r].error = "FPDF error"

\* C2: when two runs interleave, no run touches a chart file of the other,
\* so each run that would succeed alone also succeeds when interleaved, also
\* when the tables share a column name or the uploads a base filename.
C2_InterleavedRunsSucceed ==
    \A r \in Runs : profiler[r].pc = "raised" => FailsAlone(r)

\* C5: a run that fails ends by raising an error with a message, with no
\* report document of the run in the output directory and no artifact written
\* by the run left behind.
C5_FailedRunLeavesNothing ==
    \A r \in Runs :
        profiler[r].pc = "raised" =>
            /\ profiler[r].error # ""
            /\ profiler[r].report = None
            /\ ~\E f \in fs : f.by = r

\* a run whose companion never starts fails only for a reason of its own
RunAloneFailsAlone ==
    \A r \in Runs :
        (profiler[r].pc = "raised" /\ \A q \in Runs \ {r} : profiler[q].pc = "idle")
            => FailsAlone(r)

----------------------------------------------------------------------------
(* Properties of one instance across calls *)

\* the stored chart paths of the instance of run r all name existing files
StoredPlotsExist(r) ==
    \A k \in 1..Len(profiler[r].stats) :
        profiler[r].stats[k].plot
            => exists(fs, temp_plot_path(profiler[r].stats[k].column))

\* C12: between the calls on one instance, whenever self.stats is non-empty
\* every stored chart path refers to an existing file, so a generate_report
\* call made after an earlier successful generate_report on the same instance
\* is not stopped by a missing chart file.
C12_StoredPlotsSurvive ==
    /\ (BetweenCalls(profiler[1]) /\ profiler[1].stats # <<>>) => StoredPlotsExist(1)
    /\ ~(/\ profiler[1].reports >= 1
          /\ profiler[1].method = "generate_report"
          /\ profiler[1].pc = "raised"
          /\ profiler[1].error = "FileNotFoundError")

\* on one instance the first call never misses a chart file
FirstCallFindsItsPlots ==
    (profiler[1].calls <= 1) => profiler[1].error # "FileNotFoundError"

\* a second generate_report call that returns a report: after an analyze
\* call, or when no column has a plot
SecondReportReturned ==
    /\ profiler[1].calls = 2
    /\ profiler[1].method = "generate_report"
    /\ profiler[1].pc = "returned"
    /\ profiler[1].report # None

====
